---- MODULE Spec2Model ----
(***************************************************************************)
(* Model of beancount/scripts/checkdeps.py: the dependency checker         *)
(* (check_python, check_cdecimal, check_import, check_dependencies) and    *)
(* the reporter (list_dependencies).                                       *)
(*                                                                         *)
(* Python strings are sequences of one-character strings, so that string   *)
(* comparison, formatting and padding are computed character by character. *)
(* The environment the script probes (the interpreter version, whether     *)
(* assertions are compiled in, and what importing each module does) is     *)
(* chosen in the initial state and never changes during a run.             *)
(***************************************************************************)
EXTENDS Integers, Sequences, FiniteSets

VARIABLES
    version_info,   \* sys.version_info[:3]
    optimize,       \* TRUE when the interpreter runs with -O (assert is compiled out)
    modules,        \* what importing each module name does in this environment
    call,           \* the call in progress: function name and its arguments
    pc,             \* position in the call
    result,         \* the triples computed so far / the value returned
    raised,         \* the exception that propagated out of the call, or NoExc
    imported,       \* the module names given to the import machinery, in order
    k,              \* number of iterations of the loop of list_dependencies done
    stdout,         \* lines written to sys.stdout
    file            \* lines written to the stream given to list_dependencies

vars == <<version_info, optimize, modules, call, pc, result, raised, imported, k, stdout, file>>

env == <<version_info, optimize, modules, call>>

----------------------------------------------------------------------------
(* Bounds *)

MaxVerLen == 4        \* longest version string drawn for a probed module
MaxMajor == 4         \* largest interpreter major version
MaxMinor == 11        \* largest interpreter minor version
MaxPatch == 2         \* largest interpreter patch level
MaxDeviations == 2    \* dependencies that differ from the nominal installation

----------------------------------------------------------------------------
(* Names and literals of the script *)

python3 == <<"p","y","t","h","o","n","3">>
cdecimal == <<"c","d","e","c","i","m","a","l">>
decimal == <<"d","e","c","i","m","a","l">>
dateutil == <<"d","a","t","e","u","t","i","l">>
bottle == <<"b","o","t","t","l","e">>
ply == <<"p","l","y">>
ply_yacc == <<"p","l","y",".","y","a","c","c">>
lxml == <<"l","x","m","l">>
lxml_etree == <<"l","x","m","l",".","e","t","r","e","e">>
apiclient == <<"a","p","i","c","l","i","e","n","t">>
oauth2client == <<"o","a","u","t","h","2","c","l","i","e","n","t">>

Header == <<"D","e","p","e","n","d","e","n","c","i","e","s",":">>
NOT_INSTALLED == <<"N","O","T"," ","I","N","S","T","A","L","L","E","D">>
INSUFFICIENT == <<"(","I","N","S","U","F","F","I","C","I","E","N","T",")">>
BuiltIn == <<" ","(","b","u","i","l","t","-","i","n",")">>
OKAY == <<"O","K","A","Y">>
NameWidth == 16

\* Python values that are not strings.  A Python string is a sequence of
\* one-character strings, so these two sequences are no string.
None == <<"<None>">>
Tuple34 == <<"<tuple (3, 4)>">>
\* Marks a module object that has no __version__ attribute.
NoAttr == <<"<no attribute>">>

NoExc == "none"
Exceptions == {"Error", "AttributeError", "AssertionError", "TypeError"}

----------------------------------------------------------------------------
(* Python built-ins used by the script *)

Ord(c) ==
    CASE c = "." -> 46
      [] c = "0" -> 48 [] c = "1" -> 49 [] c = "2" -> 50 [] c = "3" -> 51
      [] c = "4" -> 52 [] c = "5" -> 53 [] c = "6" -> 54 [] c = "7" -> 55
      [] c = "8" -> 56 [] c = "9" -> 57

Digit(d) ==
    CASE d = 0 -> "0" [] d = 1 -> "1" [] d = 2 -> "2" [] d = 3 -> "3"
      [] d = 4 -> "4" [] d = 5 -> "5" [] d = 6 -> "6" [] d = 7 -> "7"
      [] d = 8 -> "8" [] d = 9 -> "9"

IsStr(v) == v \notin {None, Tuple34}

Truthy(v) == v # None /\ v # <<>>

\* str(n) of a non-negative int
RECURSIVE IntStr(_)
IntStr(n) == IF n < 10 THEN <<Digit(n)>> ELSE IntStr(n \div 10) \o <<Digit(n % 10)>>

\* sep.join(parts)
RECURSIVE Join(_, _)
Join(sep, parts) ==
    IF parts = <<>> THEN <<>>
    ELSE IF Len(parts) = 1 THEN parts[1]
    ELSE parts[1] \o sep \o Join(sep, Tail(parts))

\* a < b on str: the first differing character decides, a proper prefix is smaller
RECURSIVE StrLT(_, _)
StrLT(a, b) ==
    IF b = <<>> THEN FALSE
    ELSE IF a = <<>> THEN TRUE
    ELSE IF Ord(a[1]) # Ord(b[1]) THEN Ord(a[1]) < Ord(b[1])
    ELSE StrLT(Tail(a), Tail(b))

\* variant: the longer string is the greater one, as if 3.10 were above 3.4
StrGE_by_length(a, b) == IF Len(a) # Len(b) THEN Len(a) > Len(b) ELSE ~StrLT(a, b)

StrGE(a, b) == ~StrLT(a, b)

\* variant: every component has to reach the floor
TupleGE_componentwise(a, b) == \A i \in 1..Len(b) : i <= Len(a) /\ a[i] >= b[i]

\* a >= b on tuples of ints: the first differing component decides
RECURSIVE TupleGE(_, _)
TupleGE(a, b) ==
    IF b = <<>> THEN TRUE
    ELSE IF a = <<>> THEN FALSE
    ELSE IF a[1] # b[1] THEN a[1] > b[1]
    ELSE TupleGE(Tail(a), Tail(b))

\* "{}".format(v)
Str(v) == IF v = Tuple34 THEN <<"(","3",","," ","4",")">> ELSE v

RECURSIVE Spaces(_)
Spaces(n) == IF n <= 0 THEN <<>> ELSE <<" ">> \o Spaces(n - 1)

\* "{:16}".format(s): left-justified, padded with spaces, never truncated
Pad(s, width) == s \o Spaces(width - Len(s))

----------------------------------------------------------------------------
(* The functions of the script.  Each returns what the call does: the value *)
(* returned, or the exception that propagates, and the modules it imported. *)

Ret(value, imports) == [raised |-> NoExc, value |-> value, imports |-> imports]

Raise(exc, imports) == [raised |-> exc, value |-> None, imports |-> imports]

check_python ==
    Ret(<<python3,
          Join(<<".">>, <<IntStr(version_info[1]), IntStr(version_info[2]), IntStr(version_info[3])>>),
          TupleGE(<<version_info[1], version_info[2]>>, <<3, 3>>)>>,
        <<>>)

is_fast_decimal(decimal_module) == decimal_module.fast

\* variant: an importable cdecimal package is reported without looking at its speed
check_cdecimal_any_package ==
    IF is_fast_decimal(modules[decimal])
    THEN Ret(<<cdecimal, Str(modules[decimal].version) \o BuiltIn, TRUE>>, <<decimal>>)
    ELSE LET m == modules[cdecimal]
             imports == <<decimal, cdecimal>>
         IN  IF m.kind = "ImportError" THEN Ret(<<cdecimal, None, FALSE>>, imports)
             ELSE IF m.kind = "Error" THEN Raise("Error", imports)
             ELSE Ret(<<cdecimal, IF m.version = NoAttr THEN OKAY ELSE m.version,
                        is_fast_decimal(m)>>, imports)

check_cdecimal ==
    IF is_fast_decimal(modules[decimal])
    THEN Ret(<<cdecimal, Str(modules[decimal].version) \o BuiltIn, TRUE>>, <<decimal>>)
    ELSE LET m == modules[cdecimal]
             imports == <<decimal, cdecimal>>
         IN  IF m.kind = "ImportError" THEN Ret(<<cdecimal, None, FALSE>>, imports)
             ELSE IF m.kind = "Error" THEN Raise("Error", imports)
             ELSE IF is_fast_decimal(m)
             THEN Ret(<<cdecimal, IF m.version = NoAttr THEN OKAY ELSE m.version, TRUE>>, imports)
             ELSE Ret(<<cdecimal, None, FALSE>>, imports)

\* variant: the except branch leaves is_sufficient True
check_import_absent_sufficient(package_name, min_version, module_name) ==
    LET name == IF module_name = None THEN package_name ELSE module_name
        m == modules[name]
    IN  IF m.kind = "ImportError" THEN Ret(<<package_name, None, TRUE>>, <<name>>)
        ELSE IF m.kind = "Error" THEN Raise("Error", <<name>>)
        ELSE IF m.version = NoAttr THEN Raise("AttributeError", <<name>>)
        ELSE IF ~optimize /\ ~IsStr(m.version) THEN Raise("AssertionError", <<name>>)
        ELSE IF ~Truthy(min_version) THEN Ret(<<package_name, m.version, TRUE>>, <<name>>)
        ELSE IF ~IsStr(m.version) THEN Raise("TypeError", <<name>>)
        ELSE Ret(<<package_name, m.version, StrGE(m.version, min_version)>>, <<name>>)

\* variant: a bare except clause, every failure becomes the absent triple
check_import_catch_all(package_name, min_version, module_name) ==
    LET name == IF module_name = None THEN package_name ELSE module_name
        m == modules[name]
    IN  IF m.kind \in {"ImportError", "Error"} THEN Ret(<<package_name, None, FALSE>>, <<name>>)
        ELSE IF m.version = NoAttr THEN Ret(<<package_name, None, FALSE>>, <<name>>)
        ELSE IF ~optimize /\ ~IsStr(m.version) THEN Ret(<<package_name, None, FALSE>>, <<name>>)
        ELSE IF ~Truthy(min_version) THEN Ret(<<package_name, m.version, TRUE>>, <<name>>)
        ELSE IF ~IsStr(m.version) THEN Ret(<<package_name, None, FALSE>>, <<name>>)
        ELSE Ret(<<package_name, m.version, StrGE(m.version, min_version)>>, <<name>>)

\* variant: module_name is ignored and the package itself is imported
check_import_probe_package(package_name, min_version, module_name) ==
    LET name == package_name
        m == modules[name]
    IN  IF m.kind = "ImportError" THEN Ret(<<package_name, None, FALSE>>, <<name>>)
        ELSE IF m.kind = "Error" THEN Raise("Error", <<name>>)
        ELSE IF m.version = NoAttr THEN Raise("AttributeError", <<name>>)
        ELSE IF ~optimize /\ ~IsStr(m.version) THEN Raise("AssertionError", <<name>>)
        ELSE IF ~Truthy(min_version) THEN Ret(<<package_name, m.version, TRUE>>, <<name>>)
        ELSE IF ~IsStr(m.version) THEN Raise("TypeError", <<name>>)
        ELSE Ret(<<package_name, m.version, StrGE(m.version, min_version)>>, <<name>>)

check_import(package_name, min_version, module_name) ==
    LET name == IF module_name = None THEN package_name ELSE module_name
        m == modules[name]
    IN  IF m.kind = "ImportError" THEN Ret(<<package_name, None, FALSE>>, <<name>>)
        ELSE IF m.kind = "Error" THEN Raise("Error", <<name>>)
        ELSE IF m.version = NoAttr THEN Raise("AttributeError", <<name>>)
        ELSE IF ~optimize /\ ~IsStr(m.version) THEN Raise("AssertionError", <<name>>)
        ELSE IF ~Truthy(min_version) THEN Ret(<<package_name, m.version, TRUE>>, <<name>>)
        ELSE IF ~IsStr(m.version) THEN Raise("TypeError", <<name>>)
        ELSE Ret(<<package_name, m.version, StrGE(m.version, min_version)>>, <<name>>)

\* variant: the floor of lxml is left out
Dependencies_lxml_without_floor ==
    << [package_name |-> dateutil, min_version |-> None, module_name |-> None],
       [package_name |-> bottle, min_version |-> None, module_name |-> None],
       [package_name |-> ply, min_version |-> <<"3",".","4">>, module_name |-> ply_yacc],
       [package_name |-> lxml, min_version |-> None, module_name |-> lxml_etree],
       [package_name |-> apiclient, min_version |-> None, module_name |-> None],
       [package_name |-> oauth2client, min_version |-> None, module_name |-> None] >>

\* The check_import calls of check_dependencies, in the order of the list.
Dependencies ==
    << [package_name |-> dateutil, min_version |-> None, module_name |-> None],
       [package_name |-> bottle, min_version |-> None, module_name |-> None],
       [package_name |-> ply, min_version |-> <<"3",".","4">>, module_name |-> ply_yacc],
       [package_name |-> lxml, min_version |-> <<"3">>, module_name |-> lxml_etree],
       [package_name |-> apiclient, min_version |-> None, module_name |-> None],
       [package_name |-> oauth2client, min_version |-> None, module_name |-> None] >>

\* variant: the suffix is printed whenever sufficient is False
Line_suffix_without_version(package, version, sufficient) ==
    <<" "," "," ">> \o Pad(package, NameWidth) \o <<":"," ">>
      \o Str(IF Truthy(version) THEN version ELSE NOT_INSTALLED)
      \o <<" ">>
      \o (IF ~sufficient THEN INSUFFICIENT ELSE <<>>)

\* variant: the version is tested against None instead of for truth
Line_none_is_absent(package, version, sufficient) ==
    <<" "," "," ">> \o Pad(package, NameWidth) \o <<":"," ">>
      \o Str(IF version # None THEN version ELSE NOT_INSTALLED)
      \o <<" ">>
      \o (IF version # None /\ ~sufficient THEN INSUFFICIENT ELSE <<>>)

\* The line list_dependencies prints for one triple.
Line(package, version, sufficient) ==
    <<" "," "," ">> \o Pad(package, NameWidth) \o <<":"," ">>
      \o Str(IF Truthy(version) THEN version ELSE NOT_INSTALLED)
      \o <<" ">>
      \o (IF Truthy(version) /\ ~sufficient THEN INSUFFICIENT ELSE <<>>)

----------------------------------------------------------------------------
(* Environments *)

VersionChars == {".", "0", "1", "3", "4"}

Strings(n) == UNION {[1..m -> VersionChars] : m \in 0..n}

SampleVersions ==
    { <<>>, <<"2",".","0">>, <<"3",".","3">>, <<"3",".","4">>,
      <<"3",".","1","0">>, <<"4",".","1">> }

Module(version, fast) == [kind |-> "Module", version |-> version, fast |-> fast]

\* What importing a module can do: fail with ImportError, fail with another
\* error, or yield a module whose __version__ is a string, is missing, or is
\* not a string.
ImportOutcomes(versions) ==
    {[kind |-> "ImportError"], [kind |-> "Error"]}
      \cup {Module(v, FALSE) : v \in versions \cup {NoAttr, None, Tuple34}}

CdecimalOutcomes(versions) ==
    {[kind |-> "ImportError"], [kind |-> "Error"]}
      \cup {Module(v, f) : v \in versions \cup {NoAttr, None, Tuple34}, f \in BOOLEAN}

DecimalVersion == <<"1",".","7","0">>

ModuleNames ==
    {decimal, cdecimal, dateutil, bottle, ply, ply_yacc, lxml, lxml_etree, apiclient, oauth2client}

ProbedModules ==
    {decimal, cdecimal, dateutil, bottle, ply_yacc, lxml_etree, apiclient, oauth2client}

\* The nominal installation: a fast built-in decimal, no cdecimal package,
\* every library installed at version 3.4.
Nominal(m) ==
    IF m = decimal THEN Module(DecimalVersion, TRUE)
    ELSE IF m = cdecimal THEN [kind |-> "ImportError"]
    ELSE Module(<<"3",".","4">>, FALSE)

NominalPython == <<3, 3, 0>>

SamplePythons == {<<3, 2, 5>>, <<3, 3, 0>>, <<4, 0, 0>>}

Alternatives(m) ==
    IF m = decimal THEN {Module(DecimalVersion, FALSE)}
    ELSE IF m = cdecimal THEN CdecimalOutcomes({<<"2",".","3">>}) \ {Nominal(m)}
    ELSE ImportOutcomes(SampleVersions) \ {Nominal(m)}

AllAlternatives == UNION {Alternatives(m) : m \in ProbedModules}

----------------------------------------------------------------------------
(* list_dependencies(file), step by step *)

\* The state once a call has been made: its value, or its exception.
Outcome(r, next) ==
    /\ imported' = imported \o r.imports
    /\ IF r.raised = NoExc
       THEN /\ result' = Append(result, r.value)
            /\ raised' = raised
            /\ pc' = next
       ELSE /\ result' = result
            /\ raised' = r.raised
            /\ pc' = "raised"

InitList ==
    /\ optimize \in BOOLEAN
    /\ \E py \in SamplePythons :
       \E D \in SUBSET ProbedModules :
         /\ Cardinality(D) + (IF py = NominalPython THEN 0 ELSE 1) <= MaxDeviations
         /\ \E alt \in [D -> AllAlternatives] :
              /\ \A m \in D : alt[m] \in Alternatives(m)
              /\ version_info = py
              /\ modules = [m \in ModuleNames |-> IF m \in D THEN alt[m] ELSE Nominal(m)]
    /\ call = [fn |-> "list_dependencies"]
    /\ pc = "list_dependencies"
    /\ result = <<>>
    /\ raised = NoExc
    /\ imported = <<>>
    /\ k = 0
    /\ stdout = <<>>
    /\ file = <<>>

\* print("Dependencies:")
PrintHeader ==
    /\ pc = "list_dependencies"
    /\ stdout' = Append(stdout, Header)
    /\ pc' = "check_dependencies"
    /\ UNCHANGED <<env, result, raised, imported, k, file>>

\* check_dependencies(): the elements of the list are evaluated in order
CheckPython ==
    /\ pc = "check_dependencies"
    /\ Len(result) = 0
    /\ Outcome(check_python, "check_dependencies")
    /\ UNCHANGED <<env, k, stdout, file>>

CheckCdecimal ==
    /\ pc = "check_dependencies"
    /\ Len(result) = 1
    /\ Outcome(check_cdecimal, "check_dependencies")
    /\ UNCHANGED <<env, k, stdout, file>>

CheckImport ==
    /\ pc = "check_dependencies"
    /\ Len(result) >= 2
    /\ Len(result) < 2 + Len(Dependencies)
    /\ LET d == Dependencies[Len(result) - 1]
       IN  Outcome(check_import(d.package_name, d.min_version, d.module_name),
                   "check_dependencies")
    /\ UNCHANGED <<env, k, stdout, file>>

ReturnList ==
    /\ pc = "check_dependencies"
    /\ Len(result) = 2 + Len(Dependencies)
    /\ pc' = "for"
    /\ UNCHANGED <<env, result, raised, imported, k, stdout, file>>

\* one iteration of the for loop: print(..., file=file)
PrintLine ==
    /\ pc = "for"
    /\ k < Len(result)
    /\ file' = Append(file, Line(result[k + 1][1], result[k + 1][2], result[k + 1][3]))
    /\ k' = k + 1
    /\ UNCHANGED <<env, pc, result, raised, imported, stdout>>

ReturnNone ==
    /\ pc = "for"
    /\ k = Len(result)
    /\ pc' = "done"
    /\ UNCHANGED <<env, result, raised, imported, k, stdout, file>>

Next ==
    \/ PrintHeader
    \/ CheckPython
    \/ CheckCdecimal
    \/ CheckImport
    \/ ReturnList
    \/ PrintLine
    \/ ReturnNone

Spec == InitList /\ [][Next]_vars

----------------------------------------------------------------------------
(* check_import(package_name, min_version, module_name) called on its own *)

Floors == {None, <<>>, <<"3">>, <<"3",".","4">>}

Submodule(package) == IF package = ply THEN ply_yacc ELSE lxml_etree

InitImport ==
    /\ optimize \in BOOLEAN
    /\ version_info = NominalPython
    /\ \E package \in {ply, lxml} :
       \E module \in {None, Submodule(package)} :
       \E floor \in Floors :
       \E probed \in {package, Submodule(package)} :
       \E outcome \in ImportOutcomes(Strings(MaxVerLen)) :
       \E other \in {[kind |-> "ImportError"], Module(<<"3",".","4">>, FALSE)} :
         /\ call = [fn |-> "check_import", package_name |-> package,
                    min_version |-> floor, module_name |-> module]
         /\ modules = [m \in ModuleNames |->
                         IF m = probed THEN outcome
                         ELSE IF m \in {package, Submodule(package)} THEN other
                         ELSE Nominal(m)]
    /\ pc = "check_import"
    /\ result = <<>>
    /\ raised = NoExc
    /\ imported = <<>>
    /\ k = 0
    /\ stdout = <<>>
    /\ file = <<>>

CallCheckImport ==
    /\ pc = "check_import"
    /\ Outcome(check_import(call.package_name, call.min_version, call.module_name), "done")
    /\ UNCHANGED <<env, k, stdout, file>>

NextImport == CallCheckImport

SpecImport == InitImport /\ [][NextImport]_vars

----------------------------------------------------------------------------
(* check_python() called on its own *)

InitPython ==
    /\ optimize \in BOOLEAN
    /\ version_info \in (2..MaxMajor) \X (0..MaxMinor) \X (0..MaxPatch)
    /\ modules = [m \in ModuleNames |-> Nominal(m)]
    /\ call = [fn |-> "check_python"]
    /\ pc = "check_python"
    /\ result = <<>>
    /\ raised = NoExc
    /\ imported = <<>>
    /\ k = 0
    /\ stdout = <<>>
    /\ file = <<>>

CallCheckPython ==
    /\ pc = "check_python"
    /\ Outcome(check_python, "done")
    /\ UNCHANGED <<env, k, stdout, file>>

NextPython == CallCheckPython

SpecPython == InitPython /\ [][NextPython]_vars

----------------------------------------------------------------------------
(* check_cdecimal() called on its own *)

InitCdecimal ==
    /\ optimize \in BOOLEAN
    /\ version_info = NominalPython
    /\ \E fast \in BOOLEAN :
       \E outcome \in CdecimalOutcomes(Strings(MaxVerLen)) :
         modules = [m \in ModuleNames |->
                      IF m = decimal THEN Module(DecimalVersion, fast)
                      ELSE IF m = cdecimal THEN outcome
                      ELSE Nominal(m)]
    /\ call = [fn |-> "check_cdecimal"]
    /\ pc = "check_cdecimal"
    /\ result = <<>>
    /\ raised = NoExc
    /\ imported = <<>>
    /\ k = 0
    /\ stdout = <<>>
    /\ file = <<>>

CallCheckCdecimal ==
    /\ pc = "check_cdecimal"
    /\ Outcome(check_cdecimal, "done")
    /\ UNCHANGED <<env, k, stdout, file>>

NextCdecimal == CallCheckCdecimal

SpecCdecimal == InitCdecimal /\ [][NextCdecimal]_vars

----------------------------------------------------------------------------
(* Vocabulary of the properties *)

V33 == <<"3",".","3">>
V34 == <<"3",".","4">>
V310 == <<"3",".","1","0">>
V20 == <<"2",".","0">>

Min(S) == CHOOSE x \in S : \A y \in S : x <= y

\* v >= f in dictionary order, stated by the first position where they differ
LexGE(v, f) ==
    LET n == IF Len(v) < Len(f) THEN Len(v) ELSE Len(f)
        diff == {i \in 1..n : v[i] # f[i]}
    IN  IF diff = {} THEN Len(v) >= Len(f)
        ELSE Ord(v[Min(diff)]) > Ord(f[Min(diff)])

\* s occurs in line
Contains(line, s) ==
    \E i \in 1..(Len(line) - Len(s) + 1) : SubSeq(line, i, i + Len(s) - 1) = s

HasStringVersion(m) == m.kind = "Module" /\ m.version # NoAttr /\ IsStr(m.version)

\* no module of the environment has the object None as its __version__
NoVersionIsNone ==
    \A m \in ModuleNames : modules[m].kind = "Module" => modules[m].version # None

\* the names check_dependencies reports and the modules it has to import for them
ExpectedNames == <<python3, cdecimal, dateutil, bottle, ply, lxml, apiclient, oauth2client>>
ExpectedProbes == <<decimal, cdecimal, dateutil, bottle, ply_yacc, lxml_etree, apiclient, oauth2client>>

Returned == pc \in {"for", "done"}

----------------------------------------------------------------------------
----------------------------------------------------------------------------
Propagates(m, floor) ==
    IF m.kind = "Error" THEN "Error"
    ELSE IF m.kind = "ImportError" THEN NoExc
    ELSE IF m.version = NoAttr THEN "AttributeError"
    ELSE IF IsStr(m.version) THEN NoExc
    ELSE IF ~optimize THEN "AssertionError"
    ELSE IF floor # None THEN "TypeError"
    ELSE NoExc

ExpectedFloors == <<None, None, None, None, V34, <<"3">>, None, None>>

----------------------------------------------------------------------------
\* The module a call of check_import has to probe: module_name when it is
\* given, package_name when it is omitted.
Probed == IF call.module_name = None THEN call.package_name ELSE call.module_name

\* C3: when the probed module fails with ImportError, check_import returns
\* exactly (package_name, None, False) and raises nothing, whatever the floor;
\* a returned triple always starts with package_name; the one module imported
\* is module_name, or package_name when module_name is omitted.
C3_UnimportableIsAbsent ==
    pc # "check_import" =>
        /\ modules[Probed].kind = "ImportError"
               => raised = NoExc /\ result = << <<call.package_name, None, FALSE>> >>
        /\ pc = "done" => Len(result) = 1 /\ result[1][1] = call.package_name
        /\ call.module_name = None => imported = <<call.package_name>>
        /\ call.module_name # None => imported = <<call.module_name>>

\* ply probed through ply.yacc with floor 3.4; ply.yacc is missing while the
\* package ply itself would import
C3_Witness ==
    /\ pc = "done"
    /\ call.package_name = ply
    /\ call.module_name = ply_yacc
    /\ call.min_version = V34
    /\ modules[ply_yacc].kind = "ImportError"
    /\ modules[ply].kind = "Module"
    /\ result = << <<ply, None, FALSE>> >>

----------------------------------------------------------------------------
\* C4: when the probed module imports and has the string version v,
\* check_import returns (package_name, v, s), where s is True without a floor
\* and otherwise s says whether v >= floor in dictionary order: 3.3 and 3.10
\* are both below the floor 3.4.
C4_LexicographicFloor ==
    pc # "check_import" /\ HasStringVersion(modules[Probed]) =>
        LET v == modules[Probed].version
        IN  /\ raised = NoExc
            /\ pc = "done"
            /\ result = << <<call.package_name, v,
                             call.min_version = None \/ LexGE(v, call.min_version)>> >>
            /\ call.min_version = V34 /\ v \in {V33, V310} => result[1][3] = FALSE
            /\ call.min_version = V34 /\ v = V34 => result[1][3] = TRUE

\* version 3.10 against the floor 3.4
C4_Witness ==
    /\ pc = "done"
    /\ call.min_version = V34
    /\ HasStringVersion(modules[Probed])
    /\ modules[Probed].version = V310
    /\ result[1] = <<call.package_name, V310, FALSE>>

----------------------------------------------------------------------------
\* C5: check_python returns ('python3', "major.minor.patch", s) where s holds
\* iff major > 3, or major = 3 and minor >= 3; the patch level has no part in s.
C5_PythonFloor ==
    pc = "done" =>
        LET major == version_info[1]
            minor == version_info[2]
            patch == version_info[3]
        IN  /\ raised = NoExc
            /\ Len(result) = 1
            /\ result[1][1] = python3
            /\ result[1][2] = IntStr(major) \o <<".">> \o IntStr(minor) \o <<".">> \o IntStr(patch)
            /\ result[1][2] # None
            /\ result[1][3] = (major > 3 \/ (major = 3 /\ minor >= 3))
            /\ major = 3 /\ minor = 2 => result[1][3] = FALSE
            /\ version_info = <<3, 3, 0>> => result[1] = <<python3, <<"3",".","3",".","0">>, TRUE>>
            /\ version_info = <<4, 0, 0>> => result[1] = <<python3, <<"4",".","0",".","0">>, TRUE>>
            /\ version_info = <<3, 10, 1>> => result[1] = <<python3, <<"3",".","1","0",".","1">>, TRUE>>

\* a newer major version with a minor version below 3
C5_Witness ==
    /\ pc = "done"
    /\ version_info = <<4, 0, 0>>
    /\ result[1][3] = TRUE

----------------------------------------------------------------------------
\* C6: check_dependencies returns 8 triples named python3, cdecimal, dateutil,
\* bottle, ply, lxml, apiclient, oauth2client in this order; it imports
\* ply.yacc for ply and lxml.etree for lxml; ply is held to the floor 3.4,
\* lxml to the floor 3, and the four other libraries to none.
C6_FixedOrder ==
    Returned =>
        /\ Len(result) = 8
        /\ \A i \in 1..8 : result[i][1] = ExpectedNames[i]
        /\ imported = (IF modules[decimal].fast THEN <<decimal>> ELSE <<decimal, cdecimal>>)
                        \o SubSeq(ExpectedProbes, 3, 8)
        /\ \A i \in 3..8 :
               HasStringVersion(modules[ExpectedProbes[i]]) =>
                   result[i][3] = (ExpectedFloors[i] = None
                                     \/ LexGE(modules[ExpectedProbes[i]].version, ExpectedFloors[i]))

\* the list was returned with lxml 3.3 accepted although ply 3.3 is not
C6_Witness ==
    /\ pc = "done"
    /\ Len(result) = 8
    /\ modules[ply_yacc] = Module(V33, FALSE)
    /\ modules[lxml_etree] = Module(V33, FALSE)
    /\ result[5] = <<ply, V33, FALSE>>
    /\ result[6] = <<lxml, V33, TRUE>>

----------------------------------------------------------------------------
\* C7: the whole report goes to the given stream and nothing to another one:
\* the given stream holds the header line, then one line per triple in order.
C7_ReportOnGivenStream ==
    pc = "done" =>
        /\ stdout = <<>>
        /\ Len(file) = 1 + Len(result)
        /\ file[1] = Header

----------------------------------------------------------------------------
\* The fields of a report line: three spaces, the name in 16 columns, a colon
\* and a space, the version field, a space, the suffix.
ReportLine(name, versionField, suffix) ==
    <<" "," "," ">> \o name \o [j \in 1..(16 - Len(name)) |-> " "]
      \o <<":"," ">> \o versionField \o <<" ">> \o suffix

\* C8 as stated: the version field is NOT INSTALLED when the version is None
\* and the version otherwise; the suffix is (INSUFFICIENT) iff the version is
\* not None and sufficient is False.
C8_LinePerResult ==
    /\ Len(file) = k
    /\ \A i \in 1..k :
           LET name == result[i][1]
               version == result[i][2]
               sufficient == result[i][3]
           IN  file[i] = ReportLine(name,
                                    IF version = None THEN NOT_INSTALLED ELSE Str(version),
                                    IF version # None /\ ~sufficient THEN INSUFFICIENT ELSE <<>>)

DateutilLine == <<" "," "," ","d","a","t","e","u","t","i","l"," "," "," "," "," "," "," "," ",":"," ","N","O","T"," ","I","N","S","T","A","L","L","E","D"," ">>
LxmlLine == <<" "," "," ","l","x","m","l"," "," "," "," "," "," "," "," "," "," "," "," ",":"," ","2",".","0"," ","(","I","N","S","U","F","F","I","C","I","E","N","T",")">>

\* C8 amended: the version field is NOT INSTALLED when the version is None or
\* the empty string and the version otherwise; the suffix is (INSUFFICIENT)
\* iff the version is neither None nor empty and sufficient is False.  With
\* dateutil unimportable and lxml.etree at 2.0 the report shows dateutil as
\* NOT INSTALLED and lxml as 2.0 (INSUFFICIENT).
C8_LinePerResultFalsy ==
    /\ Len(file) = k
    /\ pc = "done" => k = Len(result)
    /\ \A i \in 1..k :
           LET name == result[i][1]
               version == result[i][2]
               sufficient == result[i][3]
               absent == version = None \/ version = <<>>
           IN  file[i] = ReportLine(name,
                                    IF absent THEN NOT_INSTALLED ELSE Str(version),
                                    IF ~absent /\ ~sufficient THEN INSUFFICIENT ELSE <<>>)
    /\ pc = "done" /\ modules[dateutil].kind = "ImportError"
                   /\ modules[lxml_etree] = Module(V20, FALSE)
           => file[3] = DateutilLine /\ file[6] = LxmlLine

\* the report of the environment without dateutil and with lxml.etree 2.0
C8_Witness ==
    /\ pc = "done"
    /\ modules[dateutil].kind = "ImportError"
    /\ modules[lxml_etree] = Module(V20, FALSE)
    /\ file[3] = DateutilLine
    /\ file[6] = LxmlLine

----------------------------------------------------------------------------
\* C9: check_cdecimal decides in order.  A fast built-in decimal gives
\* ('cdecimal', '<version> (built-in)', True) without importing cdecimal;
\* otherwise a fast cdecimal gives its version, or OKAY when it has none, and
\* True; otherwise (cdecimal slow or failing with ImportError) the result is
\* ('cdecimal', None, False).  No result has a version and sufficient False.
C9_CdecimalOrder ==
    pc # "check_cdecimal" =>
        LET d == modules[decimal]
            c == modules[cdecimal]
        IN  /\ d.fast =>
                /\ raised = NoExc
                /\ result = << <<cdecimal, <<"1",".","7","0"," ","(","b","u","i","l","t","-","i","n",")">>, TRUE>> >>
                /\ imported = <<decimal>>
            /\ ~d.fast => imported = <<decimal, cdecimal>>
            /\ ~d.fast /\ c.kind = "Module" /\ c.fast =>
                /\ raised = NoExc
                /\ result = << <<cdecimal, IF c.version = NoAttr THEN OKAY ELSE c.version, TRUE>> >>
            /\ ~d.fast /\ (c.kind = "ImportError" \/ (c.kind = "Module" /\ ~c.fast)) =>
                /\ raised = NoExc
                /\ result = << <<cdecimal, None, FALSE>> >>
            /\ pc = "done" => ~(result[1][2] # None /\ result[1][3] = FALSE)

\* a slow built-in decimal and a fast cdecimal package without version attribute
C9_Witness ==
    /\ pc = "done"
    /\ ~modules[decimal].fast
    /\ modules[cdecimal] = Module(NoAttr, TRUE)
    /\ result = << <<cdecimal, OKAY, TRUE>> >>

----------------------------------------------------------------------------
\* C10: no report line holds both NOT INSTALLED and (INSUFFICIENT); a library
\* that imports with the empty string as version has a triple whose version is
\* not None (with sufficient False when its floor is not empty), and its line
\* shows NOT INSTALLED without (INSUFFICIENT).
C10_MarkersExclusive ==
    /\ \A i \in 1..Len(file) :
           ~(Contains(file[i], NOT_INSTALLED) /\ Contains(file[i], INSUFFICIENT))
    /\ \A i \in 3..Len(file) :
           modules[ExpectedProbes[i]] = Module(<<>>, FALSE) =>
               /\ result[i][2] = <<>>
               /\ result[i][2] # None
               /\ ExpectedFloors[i] \notin {None, <<>>} => result[i][3] = FALSE
               /\ Contains(file[i], NOT_INSTALLED)
               /\ ~Contains(file[i], INSUFFICIENT)

\* ply.yacc imports with an empty version and its line has been printed
C10_Witness ==
    /\ pc = "done"
    /\ modules[ply_yacc] = Module(<<>>, FALSE)
    /\ result[5] = <<ply, <<>>, FALSE>>
    /\ Contains(file[5], NOT_INSTALLED)

====
